---------------------------- MODULE Spec2Model ----------------------------
(***************************************************************************)
(* Model of jokeset's wocka.com scraper.                                   *)
(*                                                                         *)
(*   src/src/wocka.rs  extract_joke : one page -> Result<WockaJoke, Error> *)
(*   src/src/main.rs   scrape       : the batched fetch/extract loop       *)
(*                                                                         *)
(* A string is a sequence of lexemes.  The lexeme " " is whitespace, every *)
(* other lexeme is a run of non-whitespace characters, so that trim() and  *)
(* join() are computed and not assumed.                                    *)
(***************************************************************************)
EXTENDS Integers, Sequences, FiniteSets, TLC

\* ------------------------------------------------------------------ bounds
MaxTasks == 3          \* largest batch size (--tasks) explored
MaxBatches == 2        \* batches launched before the exploration stops
MaxChildren == 3       \* child nodes of div#content
MaxTableTexts == 2     \* td.contents elements of a page, and their text nodes
LastPage == 3          \* highest id the site may hold a joke for

\* The literal 2000 of main.rs:159, scaled down so that the exit is reached.
FailureThreshold == 2

\* ----------------------------------------------------------------- strings
WhiteSpace == {" "}

RECURSIVE trim_start(_)
trim_start(s) ==
    IF s = <<>> THEN <<>>
    ELSE IF Head(s) \in WhiteSpace THEN trim_start(Tail(s)) ELSE s

RECURSIVE trim_end(_)
trim_end(s) ==
    IF s = <<>> THEN <<>>
    ELSE IF s[Len(s)] \in WhiteSpace THEN trim_end(SubSeq(s, 1, Len(s) - 1))
    ELSE s

trim(s) == trim_end(trim_start(s))

\* Iterator::filter_map(|x| { let x = x.trim(); if !x.is_empty() {Some} else {None} })
RECURSIVE trim_nonempty(_)
trim_nonempty(texts) ==
    IF texts = <<>> THEN <<>>
    ELSE LET x == trim(Head(texts))
         IN  IF x # <<>> THEN <<x>> \o trim_nonempty(Tail(texts))
             ELSE trim_nonempty(Tail(texts))

\* Iterator::flatten over the per-element text vectors
RECURSIVE flatten(_)
flatten(vs) == IF vs = <<>> THEN <<>> ELSE Head(vs) \o flatten(Tail(vs))

\* [String]::join(sep)
RECURSIVE join(_, _)
join(parts, sep) ==
    IF parts = <<>> THEN <<>>
    ELSE IF Len(parts) = 1 THEN parts[1]
    ELSE parts[1] \o sep \o join(Tail(parts), sep)

\* Iterator::position, 1-based; 0 stands for None
position(s, x) ==
    IF \E k \in 1..Len(s) : s[k] = x
    THEN CHOOSE k \in 1..Len(s) : s[k] = x /\ \A m \in 1..(k - 1) : s[m] # x
    ELSE 0

\* Display of an unsigned integer: its decimal digits
Digit == <<"0", "1", "2", "3", "4", "5", "6", "7", "8", "9">>

RECURSIVE to_decimal(_)
to_decimal(n) ==
    IF n < 10 THEN <<Digit[n + 1]>>
    ELSE to_decimal(n \div 10) \o <<Digit[(n % 10) + 1]>>

\* --------------------------------------------------------------- documents
SeqUpTo(S, n) == UNION {[1..m -> S] : m \in 0..n}

CategoryLabel == <<"Category">>

\* raw text nodes found below td.contents
CellText == {<<" ">>, <<" ", "Category", " ">>, <<"Pun">>}

\* raw text nodes that are direct children of div#content
ContentText == {<<" ">>, <<"a">>, <<" ", "b", " ">>}

\* text nodes below an h2
HeadingText == {<<"T">>}

TextNode(t) == [kind |-> "text", text |-> t, texts |-> <<>>]
H2Node(ts) == [kind |-> "h2", text |-> <<>>, texts |-> ts]
OtherElement == [kind |-> "elem", text |-> <<>>, texts |-> <<>>]

\* A child of div#content: a text node, an h2 element with its descendant
\* text nodes, or an element that holds no h2.
Node ==
    {TextNode(t) : t \in ContentText}
        \cup {H2Node(ts) : ts \in SeqUpTo(HeadingText, 1)}
        \cup {OtherElement}

\* The td.contents elements of a page in document order, each with its
\* text nodes: at most MaxTableTexts elements and text nodes in all.
Table ==
    {cs \in SeqUpTo(SeqUpTo(CellText, MaxTableTexts), MaxTableTexts) :
        Len(flatten(cs)) <= MaxTableTexts}

\* the child nodes div#content can have
Children == SeqUpTo(Node, MaxChildren)

\* A parsed page: whether div#content exists, its child nodes, and the
\* td.contents elements.
Document(c, t) == [hasContent |-> TRUE, children |-> c, cells |-> t]
DocumentWithoutContent(t) == [hasContent |-> FALSE, children |-> <<>>, cells |-> t]

NoDocument == DocumentWithoutContent(<<>>)

\* what reqwest::get(..).text() yields: an error, or the text of a page
TransportError == [kind |-> "transport", doc |-> NoDocument]
Page(d) == [kind |-> "html", doc |-> d]
NoResponse == [kind |-> "none", doc |-> NoDocument]

\* ------------------------------------------------------------ extract_joke
Ok(j) == [tag |-> "Ok", err |-> "", joke |-> j]
NoJoke == [title |-> <<>>, body |-> <<>>, id |-> 0, category |-> <<>>]
Err(e) == [tag |-> "Err", err |-> e, joke |-> NoJoke]
NoResult == [tag |-> "none", err |-> "", joke |-> NoJoke]

\* Option<T> as a sequence of length 0 (None) or 1 (Some)
None == <<>>
Some(x) == <<x>>

\* document.select(&TITLE_SELECTOR).next().and_then(|x| x.text().next())
\* "div#content h2": the first h2 below div#content, then its first text node.
title_of(doc) ==
    LET hs == SelectSeq(doc.children, LAMBDA n : n.kind = "h2")
    IN  IF ~doc.hasContent \/ hs = <<>> THEN None
        ELSE IF hs[1].texts = <<>> THEN None
        ELSE Some(hs[1].texts[1])

\* the trimmed, non-empty text tokens of all td.contents, flattened
joke_details_table(doc) == trim_nonempty(flatten(doc.cells))

\* category_of without the + 1
category_of_label_index(table) ==
    LET p == position(table, CategoryLabel)
    IN  IF p = 0 THEN None ELSE Some(table[p])

\* position of "Category" plus one, then Vec::get
category_of(table) ==
    LET p == position(table, CategoryLabel)
    IN  IF p = 0 THEN None
        ELSE LET category_position == p + 1
             IN  IF category_position \in 1..Len(table)
                 THEN Some(table[category_position])
                 ELSE None

\* the text nodes among the direct children of div#content
child_texts(doc) ==
    LET ts == SelectSeq(doc.children, LAMBDA n : n.kind = "text")
    IN  [k \in 1..Len(ts) |-> ts[k].text]

NewLine == <<"\n">>

\* body_of that looks at the first child text node only
body_of_first_text(doc) ==
    IF child_texts(doc) = <<>> THEN <<>> ELSE trim(child_texts(doc)[1])

\* trimmed, non-empty child text nodes joined with line breaks
body_of(doc) == join(trim_nonempty(child_texts(doc)), NewLine)

\* extract_joke without the body.is_empty() check
extract_joke_unchecked_body(id, resp) ==
    IF resp.kind = "transport" THEN Err("Request")
    ELSE
      LET document == resp.doc
          title == title_of(document)
          category == category_of(joke_details_table(document))
          body == body_of(document)
      IN  IF title = None THEN Err("Unhandled")
          ELSE IF category = None THEN Err("Unhandled")
          ELSE IF ~document.hasContent THEN Err("Unhandled")
          ELSE Ok([title |-> title[1], body |-> body, id |-> id,
                   category |-> category[1]])

extract_joke(id, resp) ==
    IF resp.kind = "transport" THEN Err("Request")
    ELSE
      LET document == resp.doc
          title == title_of(document)
          category == category_of(joke_details_table(document))
          body == body_of(document)
      IN  IF title = None THEN Err("Unhandled")
          ELSE IF category = None THEN Err("Unhandled")
          ELSE IF ~document.hasContent THEN Err("Unhandled")
          ELSE IF body = <<>> THEN Err("Unhandled")
          ELSE Ok([title |-> title[1], body |-> body, id |-> id,
                   category |-> category[1]])

\* impl From<WockaJoke> for Joke
FooterPrefix == <<"Source: wocka.com, Category: ">>
FooterIdLabel == <<", ID: ">>

\* JokeFrom with the two format arguments in the other order
JokeFrom_swapped(value) ==
    [footer |-> FooterPrefix \o to_decimal(value.id) \o FooterIdLabel
                    \o value.category,
     body |-> value.body,
     title |-> value.title]

JokeFrom(value) ==
    [footer |-> FooterPrefix \o value.category \o FooterIdLabel
                    \o to_decimal(value.id),
     body |-> value.body,
     title |-> value.title]

\* ------------------------------------------------------------------ scrape
VARIABLES
    joke_tasks,   \* the batch size argument of scrape
    offset,       \* let mut offset: u64
    errors,       \* let mut errors
    pc,           \* where scrape stands: spawn, await, sleep, check, done, panicked
    idx,          \* position of the for loop in the vector of task handles
    tasks,        \* the spawned tasks of the current batch, in spawn order
    sink,         \* the rows the csv serializer has written
    io_error      \* the output stream has failed

vars == <<joke_tasks, offset, errors, pc, idx, tasks, sink, io_error>>

\* pages the site answers with in the runs of the whole loop
GoodPage ==
    Page(Document(<<H2Node(<<(<<"T">>)>>), TextNode(<<"a">>)>>,
                  << <<(<<" ", "Category", " ">>), <<"Pun">> >> >>))

MissingPage == Page(NoDocument)

SampleResponse == {GoodPage, MissingPage, TransportError}

\* task_id counting the tasks of a batch from 0
task_id_zero_based(i, off) == (i - 1) + off

\* NonZeroU64::new(i as u64 + offset)
task_id(i, off) == i + off

Running(id) == [st |-> "running", id |-> id, resp |-> NoResponse, res |-> NoResult]

InFlight == {j \in 1..Len(tasks) : tasks[j].st = "running"}

\* errors_after with transport failures left out of the count
errors_after_skip_transport(errs, res) ==
    IF res.tag = "Ok" THEN 0
    ELSE IF res.err = "Request" THEN errs ELSE errs + 1

\* errors_after without the reset of the Ok arm
errors_after_no_reset(errs, res) == IF res.tag = "Ok" THEN errs ELSE errs + 1

\* match arms of the for loop: Ok resets the counter, Err adds one
errors_after(errs, res) == IF res.tag = "Ok" THEN 0 ELSE errs + 1

\* should_break with >= for >
should_break_at_threshold(errs) == errs >= FailureThreshold

\* if errors > 2000 { break; }
should_break(errs) == errs > FailureThreshold

\* sink_after with a row written in both arms
sink_after_both_arms(rows, res) == Append(rows, JokeFrom(res.joke))

\* the rows after one outcome: only the Ok arm serializes
sink_after(rows, res) ==
    IF res.tag = "Ok" THEN Append(rows, JokeFrom(res.joke)) ELSE rows

\* awaited with the handles taken from the back of the vector
awaited_from_back == joke_tasks + 1 - idx

\* the handle the for loop awaits next
awaited == idx

\* after_write with the write error dropped instead of unwrapped
after_write_ignored(written) == "sleep"

\* csv_serializer.serialize(&joke).await.unwrap()
after_write(written) == IF written THEN "sleep" ELSE "panicked"

Init ==
    /\ joke_tasks \in 1..MaxTasks
    /\ offset = 0
    /\ errors = 0
    /\ pc = "spawn"
    /\ idx = 0
    /\ tasks = <<>>
    /\ sink = <<>>
    /\ io_error = FALSE

\* SpawnBatch with the counter started afresh for every batch
SpawnBatch_resetting ==
    /\ pc = "spawn"
    /\ tasks' = [i \in 1..joke_tasks |-> Running(task_id(i, offset))]
    /\ idx' = 1
    /\ pc' = "await"
    /\ errors' = 0
    /\ UNCHANGED <<joke_tasks, offset, sink, io_error>>

\* (1..=joke_tasks).map(|i| task::spawn(extract_joke(i + offset))).collect()
SpawnBatch ==
    /\ pc = "spawn"
    /\ tasks' = [i \in 1..joke_tasks |-> Running(task_id(i, offset))]
    /\ idx' = 1
    /\ pc' = "await"
    /\ UNCHANGED <<joke_tasks, offset, errors, sink, io_error>>

\* the loop head, explored for MaxBatches batches
Spawn ==
    /\ offset < MaxBatches * joke_tasks
    /\ SpawnBatch

\* CompleteWith with the task serializing its own joke
CompleteWith_writing(j, responses) ==
    /\ pc \in {"await", "sleep"}
    /\ j \in InFlight
    /\ \E resp \in responses :
          LET res == extract_joke(tasks[j].id, resp)
          IN  /\ tasks' = [tasks EXCEPT ![j] =
                             [st |-> "done", id |-> @.id, resp |-> resp,
                              res |-> res]]
              /\ sink' = IF res.tag = "Ok" THEN Append(sink, JokeFrom(res.joke))
                         ELSE sink
    /\ UNCHANGED <<joke_tasks, offset, errors, pc, idx, io_error>>

\* one spawned task runs extract_joke to its end on the response it receives
CompleteWith(j, responses) ==
    /\ pc \in {"await", "sleep"}
    /\ j \in InFlight
    /\ \E resp \in responses :
          tasks' = [tasks EXCEPT ![j] =
                      [st |-> "done", id |-> @.id, resp |-> resp,
                       res |-> extract_joke(@.id, resp)]]
    /\ UNCHANGED <<joke_tasks, offset, errors, pc, idx, sink, io_error>>

Complete == \E j \in 1..Len(tasks) : CompleteWith(j, SampleResponse)

\* ProcessOutcome with the sleep moved out of the for loop
ProcessOutcome_without_sleep ==
    /\ pc = "await"
    /\ awaited \in 1..Len(tasks)
    /\ tasks[awaited].st = "done"
    /\ LET res == tasks[awaited].res
       IN  /\ errors' = errors_after(errors, res)
           /\ sink' = sink_after(sink, res)
           /\ IF idx < joke_tasks
              THEN idx' = idx + 1 /\ pc' = "await"
              ELSE idx' = idx /\ pc' = "check"
    /\ UNCHANGED <<joke_tasks, offset, tasks, io_error>>

\* match task.await.unwrap() { Ok(x) => ..., Err(e) => ... }
\* The Ok arm serializes the joke; a failed write panics in unwrap() before
\* errors = 0 is reached.  The Err arm writes nothing.
ProcessOutcome ==
    /\ pc = "await"
    /\ awaited \in 1..Len(tasks)
    /\ tasks[awaited].st = "done"
    /\ LET res == tasks[awaited].res
       IN  IF res.tag = "Ok"
           THEN \E written \in BOOLEAN :
                  /\ io_error' = ~written
                  /\ sink' = IF written THEN sink_after(sink, res) ELSE sink
                  /\ pc' = after_write(written)
                  /\ errors' = IF pc' = "panicked" THEN errors
                               ELSE errors_after(errors, res)
           ELSE /\ errors' = errors_after(errors, res)
                /\ sink' = sink_after(sink, res)
                /\ pc' = "sleep"
                /\ UNCHANGED io_error
    /\ UNCHANGED <<joke_tasks, offset, idx, tasks>>

\* Wake with the for loop left after its first handle
Wake_first_handle_only ==
    /\ pc = "sleep"
    /\ pc' = "check"
    /\ UNCHANGED <<joke_tasks, offset, errors, idx, tasks, sink, io_error>>

\* tokio::time::sleep(10ms) returns; the for loop takes the next handle
Wake ==
    /\ pc = "sleep"
    /\ IF idx < joke_tasks
       THEN /\ idx' = idx + 1
            /\ pc' = "await"
       ELSE /\ pc' = "check"
            /\ UNCHANGED idx
    /\ UNCHANGED <<joke_tasks, offset, errors, tasks, sink, io_error>>

\* if errors > 2000 { break; }  offset += joke_tasks as u64;
Check ==
    /\ pc = "check"
    /\ IF should_break(errors)
       THEN /\ pc' = "done"
            /\ UNCHANGED offset
       ELSE /\ offset' = offset + joke_tasks
            /\ pc' = "spawn"
    /\ UNCHANGED <<joke_tasks, errors, idx, tasks, sink, io_error>>

Next == Spawn \/ Complete \/ ProcessOutcome \/ Wake \/ Check

Spec == Init /\ [][Next]_vars

\* The site holds pages up to the id LastPage; every id above it answers
\* with the page that extract_joke rejects.
TailResponse(id) == IF id <= LastPage THEN SampleResponse ELSE {MissingPage}

CompleteTailTask(j) ==
    /\ j \in 1..Len(tasks)
    /\ CompleteWith(j, TailResponse(tasks[j].id))

CompleteTail == \E j \in 1..MaxTasks : CompleteTailTask(j)

\* The loop head without the exploration bound.  The guard is above every
\* offset a batch is spawned at: the counter is not reset after LastPage, so
\* the boundary that follows id LastPage + FailureThreshold + 1 breaks.
SpawnTail ==
    /\ offset <= LastPage + FailureThreshold
    /\ SpawnBatch

NextTail == SpawnTail \/ CompleteTail \/ ProcessOutcome \/ Wake \/ Check

SpecTail == Init /\ [][NextTail]_vars

\* scrape runs on whenever it can, and every spawned task runs to its end
SpecTailFair ==
    /\ SpecTail
    /\ WF_vars(SpawnTail \/ ProcessOutcome \/ Wake \/ Check)
    /\ \A j \in 1..MaxTasks : WF_vars(CompleteTailTask(j))

\* One call of extract_joke on every response of the bounded page space, and
\* the loop's handling of its outcome: a batch of one task has been spawned
\* and its response is on the way.
InitExtract ==
    /\ joke_tasks = 1
    /\ offset = 0
    /\ errors = 0
    /\ pc = "await"
    /\ idx = 1
    /\ \/ \E t \in Table, c \in Children :
             tasks = <<[Running(task_id(1, offset))
                           EXCEPT !.resp = Page(Document(c, t))]>>
       \/ \E t \in Table :
             tasks = <<[Running(task_id(1, offset))
                           EXCEPT !.resp = Page(DocumentWithoutContent(t))]>>
       \/ tasks = <<[Running(task_id(1, offset)) EXCEPT !.resp = TransportError]>>
    /\ sink = <<>>
    /\ io_error = FALSE

\* the task receives its response and runs extract_joke on it
Fetch == CompleteWith(1, {tasks[1].resp})

NextExtract == Fetch \/ ProcessOutcome \/ Wake

SpecExtract == InitExtract /\ [][NextExtract]_vars

\* -------------------------------------------------- reading the sink back
\* The id a written row carries: the decimal number after ", ID: " in its
\* footer.
digit_value(c) == CHOOSE d \in 0..9 : Digit[d + 1] = c

RECURSIVE from_decimal(_)
from_decimal(s) ==
    IF s = <<>> THEN 0
    ELSE from_decimal(SubSeq(s, 1, Len(s) - 1)) * 10 + digit_value(s[Len(s)])

RowId(row) ==
    LET f == row.footer
        p == CHOOSE k \in 1..Len(f) :
                /\ <<f[k]>> = FooterIdLabel
                /\ \A m \in (k + 1)..Len(f) : <<f[m]>> # FooterIdLabel
    IN  from_decimal(SubSeq(f, p + 1, Len(f)))

RowsWithId(id) == {k \in 1..Len(sink) : RowId(sink[k]) = id}

\* The for loop takes an outcome in this step (the only step that leaves
\* pc = "await").
Processing == pc = "await" /\ pc' # "await"
ProcessingOk == Processing /\ tasks[idx].res.tag = "Ok"
ProcessingErr(e) == Processing /\ tasks[idx].res = Err(e)

\* the tasks of the current batch whose outcome the loop has handled
Processed ==
    {j \in 1..Len(tasks) :
        j < idx \/ (j = idx /\ pc \in {"sleep", "check", "spawn", "done"})}

\* ------------------------------------------------------------------ claims

\* C1: the rows of the sink are in strictly ascending id order, within a
\* batch and across batches, whatever order the tasks complete in.
C1_SinkAscending ==
    \A k \in 1..(Len(sink) - 1) : RowId(sink[k]) < RowId(sink[k + 1])

\* rows of two batches are in the sink while a later task of the current
\* batch has completed before an earlier one
C1_Witness ==
    /\ Len(sink) >= 3
    /\ RowId(sink[1]) <= joke_tasks
    /\ RowId(sink[Len(sink)]) > joke_tasks
    /\ \E j \in InFlight : \E m \in (j + 1)..Len(tasks) : tasks[m].st = "done"

\* C2: the loop exits only at a batch boundary whose counter is above the
\* threshold; at a boundary with counter <= threshold it goes on to the next
\* batch, and after the exit nothing is launched.
C2_TerminationAtBoundary ==
    [][ /\ (pc' = "done" /\ pc # "done"
              => pc = "check" /\ errors > FailureThreshold)
        /\ (pc = "check" /\ errors > FailureThreshold => pc' = "done")
        /\ (pc = "check" /\ errors <= FailureThreshold
              => pc' = "spawn" /\ offset' = offset + joke_tasks)
        /\ (pc \in {"await", "sleep"} => pc' # "done" /\ pc' # "spawn")
        /\ (pc = "done" => pc' = "done" /\ tasks' = tasks) ]_vars

\* batch size 2: ids 1, 2, 3 failed (counter 3 > threshold inside the second
\* batch), id 4 succeeded, and the run stands before its third batch
C2_Witness ==
    /\ joke_tasks = 2
    /\ offset = 4
    /\ pc = "spawn"
    /\ errors = 0
    /\ Len(sink) = 1
    /\ RowId(sink[1]) = 4
    /\ FailureThreshold < 3

\* C3 (as stated): a transport failure leaves the counter unchanged.
C3_TransportLeavesCounter ==
    [][ProcessingErr("Request") => errors' = errors]_vars

\* C3 (amended): a transport failure adds exactly 1 to the counter, like any
\* other failed extraction.
C3_TransportCounts ==
    [][ProcessingErr("Request") => errors' = errors + 1]_vars

\* a run whose outcomes were all transport failures has left the loop
C3_Witness ==
    /\ pc = "done"
    /\ offset = 0
    /\ sink = <<>>
    /\ \A j \in 1..Len(tasks) : tasks[j].res = Err("Request")

\* C4: Ok sets the counter to 0, a failed extraction adds exactly 1, and no
\* other step (batch boundary, spawn, sleep, task completion) changes it.
C4_CounterSteps ==
    [][ /\ (ProcessingOk /\ pc' = "sleep" => errors' = 0)
        /\ (ProcessingErr("Unhandled") => errors' = errors + 1)
        /\ (errors' # errors => Processing)
        /\ (errors' < errors => ProcessingOk /\ errors' = 0) ]_vars

\* batch [Ok, Err, Err] of size 3 left the counter at 2 and the second batch
\* starts from 2
C4_Witness ==
    /\ joke_tasks = 3
    /\ offset = 3
    /\ pc = "await"
    /\ idx = 1
    /\ errors = 2
    /\ Len(sink) = 1
    /\ RowId(sink[1]) = 1

\* C5: all tasks in flight belong to the current batch, there are at most
\* joke_tasks of them, and a batch is spawned only when none is in flight.
C5_BarrierJoin ==
    /\ [](/\ Cardinality(InFlight) <= joke_tasks
          /\ \A j \in InFlight :
                tasks[j].id \in (offset + 1)..(offset + joke_tasks))
    /\ [][pc = "spawn" /\ pc' = "await" => InFlight = {}]_vars

\* a later batch with every task still in flight
C5_Witness ==
    /\ offset > 0
    /\ joke_tasks >= 2
    /\ Cardinality(InFlight) = joke_tasks

\* C6: a handled Ok outcome has exactly one row in the sink, a handled
\* failure has none, whatever the other outcomes of the batch; the sink
\* changes only by the one row of the Ok outcome being handled.
C6_OneRowPerSuccess ==
    /\ [](\A j \in 1..Len(tasks) :
            Cardinality(RowsWithId(tasks[j].id)) =
                IF j \in Processed /\ tasks[j].res.tag = "Ok" THEN 1 ELSE 0)
    /\ [][ /\ (ProcessingOk /\ pc' = "sleep"
                 => /\ Len(sink') = Len(sink) + 1
                    /\ SubSeq(sink', 1, Len(sink)) = sink
                    /\ RowId(sink'[Len(sink')]) = tasks[idx].id)
           /\ (sink' # sink => ProcessingOk) ]_vars

\* a batch [Unhandled, Ok, Request] handled to its end
C6_Witness ==
    /\ joke_tasks = 3
    /\ pc = "check"
    /\ tasks[1].res = Err("Unhandled")
    /\ tasks[2].res.tag = "Ok"
    /\ tasks[3].res = Err("Request")
    /\ RowsWithId(tasks[2].id) # {}

\* C10: a failed write ends the run: the counter and the sink keep their
\* values in the failing step and nothing moves afterwards.
C10_WriteFailureFatal ==
    /\ [](io_error => pc = "panicked")
    /\ [][ /\ (io_error' /\ ~io_error => errors' = errors /\ sink' = sink)
           /\ (pc = "panicked" => UNCHANGED vars) ]_vars

\* a write failed in the middle of a later batch, rows already written
C10_Witness ==
    /\ io_error
    /\ offset > 0
    /\ idx < joke_tasks
    /\ Len(sink) >= 1

\* ------------------------------------------------- claims on extract_joke
\* the tasks that have run extract_joke on a page that was fetched
Extracted ==
    {j \in 1..Len(tasks) : tasks[j].st = "done" /\ tasks[j].resp.kind = "html"}

\* the flattened, trimmed, non-empty table tokens of a page
Tokens(doc) == joke_details_table(doc)

\* "Category" is absent, or its first occurrence has no token after it
CategoryUnresolved(t) ==
    \/ \A k \in 1..Len(t) : t[k] # CategoryLabel
    \/ \E k \in 1..Len(t) :
          /\ t[k] = CategoryLabel
          /\ \A m \in 1..(k - 1) : t[m] # CategoryLabel
          /\ k = Len(t)

\* some direct child text node of the container is non-empty once trimmed
HasBodyText(doc) ==
    /\ doc.hasContent
    /\ \E k \in 1..Len(doc.children) :
          doc.children[k].kind = "text" /\ trim(doc.children[k].text) # <<>>

\* the container holds a title heading
HasHeading(doc) ==
    /\ doc.hasContent
    /\ \E k \in 1..Len(doc.children) : doc.children[k].kind = "h2"

\* the first title heading of the container holds a text node
HasHeadingText(doc) ==
    /\ doc.hasContent
    /\ \E k \in 1..Len(doc.children) :
          /\ doc.children[k].kind = "h2"
          /\ \A m \in 1..(k - 1) : doc.children[m].kind # "h2"
          /\ doc.children[k].texts # <<>>

\* C7: every row of the sink has a non-empty body, and extract_joke fails
\* on every page without a non-empty trimmed child text node (no text
\* children and no container included).
C7_BodyNonEmpty ==
    /\ \A k \in 1..Len(sink) : sink[k].body # <<>>
    /\ \A j \in Extracted :
          /\ (~HasBodyText(tasks[j].resp.doc) => tasks[j].res.tag = "Err")
          /\ (tasks[j].res.tag = "Ok" => tasks[j].res.joke.body # <<>>)

\* a page with title and category whose text children are all blank failed
C7_Witness ==
    \E j \in Extracted :
        LET doc == tasks[j].resp.doc
        IN  /\ HasHeadingText(doc)
            /\ ~CategoryUnresolved(Tokens(doc))
            /\ child_texts(doc) # <<>>
            /\ ~HasBodyText(doc)
            /\ tasks[j].res = Err("Unhandled")
            /\ pc = "sleep"

\* C8: a page whose tokens hold no "Category", or whose "Category" has no
\* token after it, never extracts to Ok, title and body present or not.
C8_CategoryRequired ==
    \A j \in Extracted :
        CategoryUnresolved(Tokens(tasks[j].resp.doc)) => tasks[j].res.tag = "Err"

\* a page with title and body whose last token is its only "Category" failed
C8_Witness ==
    \E j \in Extracted :
        LET doc == tasks[j].resp.doc
        IN  /\ HasHeadingText(doc)
            /\ HasBodyText(doc)
            /\ Len(Tokens(doc)) >= 2
            /\ position(Tokens(doc), CategoryLabel) = Len(Tokens(doc))
            /\ tasks[j].res = Err("Unhandled")

\* C9 (as stated): a fetched page with a title heading, a "Category" token
\* followed by a token and a non-blank child text node extracts to Ok.
C9_CompletePageSucceeds ==
    \A j \in Extracted :
        LET doc == tasks[j].resp.doc
        IN  /\ HasHeading(doc)
            /\ ~CategoryUnresolved(Tokens(doc))
            /\ HasBodyText(doc)
            => tasks[j].res.tag = "Ok" /\ tasks[j].res.joke.body # <<>>

\* C9 (amended): the same when the first title heading holds a text node.
C9_TitledPageSucceeds ==
    \A j \in Extracted :
        LET doc == tasks[j].resp.doc
        IN  /\ HasHeadingText(doc)
            /\ ~CategoryUnresolved(Tokens(doc))
            /\ HasBodyText(doc)
            => tasks[j].res.tag = "Ok" /\ tasks[j].res.joke.body # <<>>

\* a page whose body joins two trimmed text nodes was extracted and written
C9_Witness ==
    \E j \in Extracted :
        /\ tasks[j].res.tag = "Ok"
        /\ child_texts(tasks[j].resp.doc) = << <<" ", "b", " ">>, <<"a">> >>
        /\ tasks[j].res.joke.body = <<"b", "\n", "a">>
        /\ Len(sink) = 1


\* ------------------------------------------------------------ length limit
\* the body-length limits a caller could ask for; scrape(output, no_wocka,
\* joke_tasks) takes none of them
RequestedLimit == 1..MaxChildren

C12_BatchIds ==
    /\ [](/\ offset % joke_tasks = 0
          /\ pc \in {"await", "sleep", "check", "done", "panicked"}
                => /\ Len(tasks) = joke_tasks
                   /\ \A j \in 1..Len(tasks) :
                         tasks[j].id = offset + j /\ tasks[j].id >= 1)
    /\ [][ /\ (offset' # offset
                 => offset' = offset + joke_tasks /\ pc = "check")
           /\ (pc' = "spawn" /\ pc # "spawn" => offset' = offset + joke_tasks)
           /\ (pc = "spawn" /\ pc' = "await"
                 => /\ Len(tasks') = joke_tasks
                    /\ \A j \in 1..joke_tasks : tasks'[j].id = offset + j) ]_vars

\* the second batch of size 3 is under way with the ids 4, 5, 6
C12_Witness ==
    /\ joke_tasks = 3
    /\ offset = 3
    /\ pc = "await"
    /\ [j \in 1..Len(tasks) |-> tasks[j].id] = <<4, 5, 6>>


\* C13: while every handled outcome was a failure, the counter is the number
\* of ids handled; the run stops at the first batch boundary where that
\* number is above the threshold (offset <= threshold < offset + joke_tasks,
\* the smallest k with k * joke_tasks > threshold) and no later id is
\* requested.
C13_AllFailuresStop ==
    sink = <<>> /\ ~io_error
        => /\ errors = IF pc = "spawn" THEN offset
                       ELSE offset + Cardinality(Processed)
           /\ (pc = "done"
                 => offset <= FailureThreshold
                    /\ FailureThreshold < offset + joke_tasks)
           /\ (pc \in {"await", "sleep", "check"} => offset <= FailureThreshold)
           /\ \A j \in 1..Len(tasks) : tasks[j].id <= FailureThreshold + joke_tasks

\* batch size 1: the run stopped after id FailureThreshold + 1, a page that
\* extract_joke rejected
C13_Witness ==
    /\ joke_tasks = 1
    /\ pc = "done"
    /\ sink = <<>>
    /\ errors = FailureThreshold + 1
    /\ tasks[1].id = FailureThreshold + 1
    /\ tasks[1].res = Err("Unhandled")

\* C14: when every id above LastPage is rejected and every task completes,
\* the run ends.
C14_Terminates == <>(pc \in {"done", "panicked"})

\* the run wrote rows, went past LastPage and left the loop
C14_Witness ==
    /\ pc = "done"
    /\ Len(sink) >= 1
    /\ offset >= LastPage
    /\ ~io_error


\* ------------------------------------------------------- who writes what
\* a spawned task finishes in this step
Completing == \E j \in InFlight : tasks'[j].st = "done"

\* C15 (as stated): offset and the counter change only while no task of the
\* batch is in flight.
C15_MutatedBetweenBatches ==
    [][offset' # offset \/ errors' # errors => InFlight = {}]_vars

\* C15 (amended): offset changes only with no task in flight; the counter
\* changes only when the loop handles the outcome of the completed task it
\* awaits, and the tasks still in flight are later ones of the batch.
C15_MutatedInOrder ==
    [][ /\ (offset' # offset => InFlight = {} /\ pc = "check")
        /\ (errors' # errors
              => /\ pc = "await"
                 /\ tasks[idx].st = "done"
                 /\ \A j \in InFlight : j > idx) ]_vars

\* the counter has counted the first outcome of a later batch while the
\* last task of the batch is in flight
C15_Witness ==
    /\ offset > 0
    /\ pc = "sleep"
    /\ idx = 1
    /\ errors >= 1
    /\ tasks[1].res.tag = "Err"
    /\ Len(tasks) \in InFlight

\* C16: the completion of a task leaves offset, the counter and the sink as
\* they are; the counter and the sink change only when the loop handles an
\* outcome, offset only at the batch boundary.
C16_CompletionWritesNothing ==
    [][ /\ (Completing => UNCHANGED <<offset, errors, sink, io_error>>)
        /\ (errors' # errors \/ sink' # sink => Processing /\ ~Completing)
        /\ (offset' # offset => pc = "check" /\ ~Completing) ]_vars

\* the last task of a batch completed with a joke before the first, and
\* nothing is written
C16_Witness ==
    /\ joke_tasks >= 2
    /\ pc = "await"
    /\ idx = 1
    /\ 1 \in InFlight
    /\ tasks[Len(tasks)].res.tag = "Ok"
    /\ sink = <<>>
    /\ errors = 0

\* C17 (as stated): the loop sleeps only after the termination check of a
\* batch that goes on, never between two outcomes and never after the final
\* batch.
C17_SleepBetweenBatches ==
    [][pc' = "sleep" /\ pc # "sleep" => pc = "check"]_vars

\* C17 (amended): the loop sleeps once after every handled outcome, the last
\* outcome of the final batch included, before the termination check; it
\* does not sleep between the check and the spawn of the next batch.
C17_SleepAfterEveryOutcome ==
    [][ /\ (pc' = "sleep" /\ pc # "sleep" => Processing)
        /\ (Processing /\ pc' # "panicked" => pc' = "sleep")
        /\ (pc' = "check" /\ pc # "check" => pc = "sleep" /\ idx = joke_tasks)
        /\ (pc \in {"check", "spawn"} => pc' # "sleep") ]_vars

\* the loop sleeps between the first and the second outcome of a batch
C17_Witness ==
    /\ pc = "sleep"
    /\ joke_tasks >= 2
    /\ idx = 1
    /\ offset > 0


\* ---------------------------------------------------- category and footer
\* C18: the category of an extracted joke is the token after the first
\* "Category" token, its id is the id asked for, and the row written for it
\* has the footer "Source: wocka.com, Category: <category>, ID: <id>" with
\* the joke's title and body as they were extracted.
C18_CategoryInFooter ==
    \A j \in Extracted :
        tasks[j].res.tag = "Ok" =>
            LET t == Tokens(tasks[j].resp.doc)
                joke == tasks[j].res.joke
            IN  /\ \E k \in 1..(Len(t) - 1) :
                      /\ t[k] = CategoryLabel
                      /\ \A m \in 1..(k - 1) : t[m] # CategoryLabel
                      /\ joke.category = t[k + 1]
                /\ joke.id = tasks[j].id
                /\ joke.title = title_of(tasks[j].resp.doc)[1]
                /\ (j \in Processed /\ ~io_error
                      => LET footer == <<"Source: wocka.com, Category: ">>
                                           \o joke.category \o <<", ID: ">>
                                           \o to_decimal(tasks[j].id)
                             rows == {r \in 1..Len(sink) :
                                         sink[r].footer = footer}
                         IN  /\ Cardinality(rows) = 1
                             /\ \A r \in rows :
                                   /\ sink[r].title = joke.title
                                   /\ sink[r].body = joke.body)

\* the row of id 1 for a page with the cell texts " Category " and "Pun"
C18_Witness ==
    /\ Len(sink) = 1
    /\ tasks[1].resp.doc.cells = << <<(<<" ", "Category", " ">>), <<"Pun">> >> >>
    /\ sink[1].footer = <<"Source: wocka.com, Category: ", "Pun", ", ID: ", "1">>
    /\ sink[1].title = <<"T">>
    /\ sink[1].body = <<"a", "\n", "b">>

====
